---- MODULE Spec2Model ----
(***************************************************************************)
(* Model of the Origins swap provider (OriginsSwapProvider.js): the swap   *)
(* record state machine driven by newSwap and performNextSwapAction, the   *)
(* chain client it talks to, and the (network, asset) lock.                *)
(***************************************************************************)
EXTENDS Integers, Sequences, FiniteSets, TLC

\* ---------------------------------------------------------------- bounds
MaxAmount == 2          \* largest fromAmount / allowance (base units)
MaxConfirmations == 2   \* confirmations the chain is followed up to
MaxLostUpdates == 1     \* returned updates a swap may lose before they are stored

\* ------------------------------------------------------------- universe
Swaps == {"s1", "s2"}
NoSwap == "none"
Assets == {"SOV", "RBTC"}
Network == "mainnet"
Legs == {"approve", "swap"}
NoHash == <<>>
NoUpdate ==
  [status |-> "undefined", endTime |-> FALSE,
   approveTxHash |-> NoHash, swapTxHash |-> NoHash]

Statuses ==
  {"WAITING_FOR_APPROVE_CONFIRMATIONS", "APPROVE_CONFIRMED",
   "WAITING_FOR_SWAP_CONFIRMATIONS", "SUCCESS", "FAILED"}

Terminal == {"SUCCESS", "FAILED"}

\* static statuses table: position of a status on the forward path
Rank(st) ==
  CASE st = "NONE" -> 0
    [] st = "WAITING_FOR_APPROVE_CONFIRMATIONS" -> 1
    [] st = "APPROVE_CONFIRMED" -> 2
    [] st = "WAITING_FOR_SWAP_CONFIRMATIONS" -> 3
    [] st = "SUCCESS" -> 4
    [] st = "FAILED" -> 4

isERC20(asset) == asset = "SOV"

\* ------------------------------------------------- receipt status values
\* The chain client reports a receipt status as a decimal or a hex string;
\* the code reads it through Number(status).
Digit(c) ==
  CASE c = "0" -> 0 [] c = "1" -> 1 [] c = "2" -> 2 [] OTHER -> -1

DecString(n) == CASE n = 0 -> <<"0">> [] n = 1 -> <<"1">> [] n = 2 -> <<"2">>

HexString(n) == <<"0", "x">> \o DecString(n)

ReceiptEncodings(code) == {DecString(code), HexString(code)}

\* Number read as a decimal parser only
Number_DecimalOnly(s) ==
  IF Len(s) = 1 THEN Digit(s[1]) ELSE -1

\* Number(s): "0x.." is parsed as hex, anything else as decimal; -1 is NaN
Number(s) ==
  IF Len(s) = 3 /\ s[1] = "0" /\ s[2] = "x" THEN Digit(s[3])
  ELSE IF Len(s) = 1 THEN Digit(s[1])
  ELSE -1

VARIABLES
  swaps,      \* the durable Swap records, by swap
  pc,         \* where each swap's running invocation is suspended
  lock,       \* holder of the lock of each (network, asset)
  txs,        \* the chain: transactions by hash
  allowance,  \* the chain: allowance granted to the sale contract
  sent,       \* transactions handed to client.chain.sendTransaction, per swap and leg
  last,       \* what the invocation finished by the last step did, if any
  lost,       \* returned updates that never reached the record, per swap
  query,      \* the last read-only request (getQuote, requiresApproval,
              \* estimateFees) and its answer
  origin      \* requestOriginAccess: state.app and the requests under way

vars == <<swaps, pc, lock, txs, allowance, sent, last, lost, query, origin>>

\* what the swap state machine never touches
ext == <<lost, query, origin>>

Hash(s, leg) == <<s, leg>>
Hashes == {Hash(s, leg) : s \in Swaps, leg \in Legs}
LockKey(s) == <<Network, swaps[s].from>>
Keys == {<<Network, a>> : a \in Assets}

NoTx == [conf |-> -1, code |-> 0]
NoRecord ==
  [status |-> "NONE", from |-> "SOV", fromAmount |-> 0,
   approveTxHash |-> NoHash, swapTxHash |-> NoHash, endTime |-> FALSE]
NoLast ==
  [op |-> "none", status |-> "NONE", after |-> "NONE", calls |-> <<>>,
   sent |-> 0, refresh |-> 0, locked |-> FALSE, threw |-> FALSE,
   update |-> NoUpdate, conf |-> -1, receipt |-> <<>>,
   answer |-> "", ranswer |-> ""]

LogOff == [NoLast EXCEPT !.op = "off"]

NoQuery == [op |-> "none"]

\* requestOriginAccess: the calls the model follows, and the origin each
\* one asks access for
Requests == {"r1", "r2", "r3"}
OriginOf(r) == IF r = "r2" THEN "dapp-b" ELSE "dapp-a"

\* requestOriginAccess: no request under way, state.app flag not set
OriginIdle ==
  [active |-> FALSE,                            \* state.app.requestOriginAccessActive
   at |-> [r \in Requests |-> "idle"],          \* idle, unlock, waiting, done
   listener |-> [r \in Requests |-> FALSE],     \* its $once listener is registered
   popup |-> [r \in Requests |-> "none"],       \* none, open, replied, closed
   result |-> [r \in Requests |-> "none"],      \* how the call ended
   connections |-> 0]                           \* ADD_EXTERNAL_CONNECTION commits

ExtInit ==
  /\ lost = [s \in Swaps |-> 0]
  /\ query = NoQuery
  /\ origin = OriginIdle

Init ==
  /\ swaps = [s \in Swaps |-> NoRecord]
  /\ pc = [s \in Swaps |-> "idle"]
  /\ lock = [k \in Keys |-> NoSwap]
  /\ txs = [h \in Hashes |-> NoTx]
  /\ allowance \in 0..MaxAmount
  /\ sent = [s \in Swaps |-> [leg \in Legs |-> 0]]
  /\ last = NoLast
  /\ ExtInit

\* ------------------------------------------------------------- helpers
\* the store merges a returned update into the durable record
Merge(rec, upd) ==
  IF upd = NoUpdate THEN rec
  ELSE [rec EXCEPT
          !.status = upd.status,
          !.endTime = rec.endTime \/ upd.endTime,
          !.approveTxHash =
             IF upd.approveTxHash = NoHash THEN @ ELSE upd.approveTxHash,
          !.swapTxHash =
             IF upd.swapTxHash = NoHash THEN @ ELSE upd.swapTxHash]

Finished(op, rec, recAfter, calls, nsent, nrefresh, locked, threw, upd, conf, receipt) ==
  [op |-> op, status |-> rec.status, after |-> recAfter.status,
   calls |-> calls, sent |-> nsent,
   refresh |-> nrefresh, locked |-> locked, threw |-> threw, update |-> upd,
   conf |-> conf, receipt |-> receipt, answer |-> "", ranswer |-> ""]

\* what a client answer was: the error's name, or the kind of value
Answer(resp) == IF resp.kind = "throw" THEN resp.name ELSE resp.kind

\* a step that finishes an invocation logs it, any other step clears the
\* log; LogOff switches the log off
Record(r) == last' = IF last = LogOff THEN LogOff ELSE r

\* ----------------------------------------------------- the chain client
\* getTransactionByHash(hash): the answers the client can give right now
GetTransactionByHash(h) ==
  {[kind |-> "throw", name |-> "Error", confirmations |-> -1]}
  \cup (IF txs[h].conf <= 0
          THEN {[kind |-> "throw", name |-> "TxNotFoundError", confirmations |-> -1],
                [kind |-> "null", name |-> "", confirmations |-> -1]}
          ELSE {})
  \cup (IF txs[h].conf >= 0
          THEN {[kind |-> "tx", name |-> "", confirmations |-> txs[h].conf]}
          ELSE {})

\* getTransactionReceipt(hash) of a mined transaction
GetTransactionReceipt(h) ==
  {[kind |-> "throw", name |-> "Error", status |-> <<>>],
   [kind |-> "throw", name |-> "TxNotFoundError", status |-> <<>>]}
  \cup {[kind |-> "receipt", name |-> "", status |-> e] :
          e \in ReceiptEncodings(txs[h].code)}

\* sendTransaction(txData) by swap s for a leg: the transaction enters the chain
SendTransaction(s, leg) ==
  /\ txs' = [txs EXCEPT ![Hash(s, leg)] = [conf |-> 0, code |-> 0]]
  /\ sent' = [sent EXCEPT ![s][leg] = @ + 1]

\* ------------------------------------------------------------ APPROVAL
\* requiresApproval with a strict comparison
requiresApproval_Gt(quote, allow) ==
  IF ~isERC20(quote.from) THEN FALSE
  ELSE IF allow > quote.fromAmount THEN FALSE
  ELSE TRUE

requiresApproval(quote, allow) ==
  IF ~isERC20(quote.from) THEN FALSE
  ELSE IF allow >= quote.fromAmount THEN FALSE
  ELSE TRUE

\* approveTokens that never looks at requiresApproval
approveTokens_AlwaysApprove(quote, allow) == NoUpdate

\* approveTokens, up to the point where it suspends in sendTransaction
approveTokens(quote, allow) ==
  IF ~requiresApproval(quote, allow)
    THEN [NoUpdate EXCEPT !.status = "APPROVE_CONFIRMED"]
    ELSE NoUpdate

\* approveTokens that reports the approval as confirmed once it is sent
approveTokensSent_Confirmed(h) ==
  [NoUpdate EXCEPT !.status = "APPROVE_CONFIRMED", !.approveTxHash = h]

approveTokensSent(h) ==
  [NoUpdate EXCEPT !.status = "WAITING_FOR_APPROVE_CONFIRMATIONS",
                   !.approveTxHash = h]

\* ---------------------------------------------------------------- SWAP
\* sendSwap that leaves the status where it was
sendSwap_NoAdvance(h) ==
  [NoUpdate EXCEPT !.status = "APPROVE_CONFIRMED", !.swapTxHash = h]

sendSwap(h) ==
  [NoUpdate EXCEPT !.status = "WAITING_FOR_SWAP_CONFIRMATIONS",
                   !.swapTxHash = h]

\* --------------------------------------------------- STATE TRANSITIONS
\* waitForApproveConfirmations that accepts zero confirmations
waitForApproveConfirmations_ZeroConf(tx) ==
  IF tx.kind = "throw"
    THEN [update |-> NoUpdate, threw |-> tx.name # "TxNotFoundError",
          receipt |-> FALSE]
  ELSE IF tx.kind = "tx" /\ tx.confirmations >= 0
    THEN [update |-> [NoUpdate EXCEPT !.status = "APPROVE_CONFIRMED",
                                      !.endTime = TRUE],
          threw |-> FALSE, receipt |-> FALSE]
  ELSE [update |-> NoUpdate, threw |-> FALSE, receipt |-> FALSE]

\* waitForApproveConfirmations whose catch swallows every error
waitForApproveConfirmations_SwallowAll(tx) ==
  IF tx.kind = "throw"
    THEN [update |-> NoUpdate, threw |-> FALSE, receipt |-> FALSE]
  ELSE IF tx.kind = "tx" /\ tx.confirmations > 0
    THEN [update |-> [NoUpdate EXCEPT !.status = "APPROVE_CONFIRMED",
                                      !.endTime = TRUE],
          threw |-> FALSE, receipt |-> FALSE]
  ELSE [update |-> NoUpdate, threw |-> FALSE, receipt |-> FALSE]

\* result of waitForApproveConfirmations for one answer of the client
waitForApproveConfirmations(tx) ==
  IF tx.kind = "throw"
    THEN [update |-> NoUpdate, threw |-> tx.name # "TxNotFoundError",
          receipt |-> FALSE]
  ELSE IF tx.kind = "tx" /\ tx.confirmations > 0
    THEN [update |-> [NoUpdate EXCEPT !.status = "APPROVE_CONFIRMED",
                                      !.endTime = TRUE],
          threw |-> FALSE, receipt |-> FALSE]
  ELSE [update |-> NoUpdate, threw |-> FALSE, receipt |-> FALSE]

\* variants of waitForSwapConfirmations: the status a failed receipt maps
\* to, the confirmations asked for, and when the balances are refreshed
waitForSwapConfirmations_Variant(tx, rc, failed, minConf, refreshOnFail) ==
  IF tx.kind = "throw"
    THEN [update |-> NoUpdate, threw |-> tx.name # "TxNotFoundError",
          receipt |-> FALSE, refresh |-> 0]
  ELSE IF tx.kind = "tx" /\ tx.confirmations >= minConf
    THEN IF rc.kind = "throw"
           THEN [update |-> NoUpdate, threw |-> rc.name # "TxNotFoundError",
                 receipt |-> TRUE, refresh |-> 0]
           ELSE [update |-> [NoUpdate EXCEPT
                               !.status = IF Number(rc.status) = 1
                                            THEN "SUCCESS" ELSE failed,
                               !.endTime = TRUE],
                 threw |-> FALSE, receipt |-> TRUE,
                 refresh |-> IF Number(rc.status) = 1 \/ refreshOnFail
                               THEN 1 ELSE 0]
  ELSE [update |-> NoUpdate, threw |-> FALSE, receipt |-> FALSE, refresh |-> 0]

waitForSwapConfirmations_Regress(tx, rc) ==
  waitForSwapConfirmations_Variant(tx, rc, "APPROVE_CONFIRMED", 1, TRUE)

waitForSwapConfirmations_EagerReceipt(tx, rc) ==
  waitForSwapConfirmations_Variant(tx, rc, "FAILED", 0, TRUE)

waitForSwapConfirmations_TwoConf(tx, rc) ==
  waitForSwapConfirmations_Variant(tx, rc, "FAILED", 2, TRUE)

waitForSwapConfirmations_RefreshOnSuccess(tx, rc) ==
  waitForSwapConfirmations_Variant(tx, rc, "FAILED", 1, FALSE)

\* result of waitForSwapConfirmations for one answer to each client call;
\* receipt tells whether getTransactionReceipt was called
waitForSwapConfirmations(tx, rc) ==
  IF tx.kind = "throw"
    THEN [update |-> NoUpdate, threw |-> tx.name # "TxNotFoundError",
          receipt |-> FALSE, refresh |-> 0]
  ELSE IF tx.kind = "tx" /\ tx.confirmations > 0
    THEN IF rc.kind = "throw"
           THEN [update |-> NoUpdate, threw |-> rc.name # "TxNotFoundError",
                 receipt |-> TRUE, refresh |-> 0]
           ELSE [update |-> [NoUpdate EXCEPT
                               !.status = IF Number(rc.status) = 1
                                            THEN "SUCCESS" ELSE "FAILED",
                               !.endTime = TRUE],
                 threw |-> FALSE, receipt |-> TRUE, refresh |-> 1]
  ELSE [update |-> NoUpdate, threw |-> FALSE, receipt |-> FALSE, refresh |-> 0]

\* ------------------------------------------------------------- newSwap
\* newSwap for a non-token source: sendSwap suspends in sendTransaction
NewSwapNative(s) ==
  /\ swaps[s].status = "NONE" /\ pc[s] = "idle"
  /\ \E asset \in Assets, amount \in 1..MaxAmount :
       /\ ~isERC20(asset)
       /\ swaps' = [swaps EXCEPT ![s] =
                      [NoRecord EXCEPT !.from = asset, !.fromAmount = amount]]
  /\ pc' = [pc EXCEPT ![s] = "newSwap:sendSwap"]
  /\ Record(NoLast)
  /\ UNCHANGED <<lock, txs, allowance, sent>>
  /\ UNCHANGED ext

\* newSwap for a token source: approveTokens reads the allowance
NewSwapToken(s) ==
  /\ swaps[s].status = "NONE" /\ pc[s] = "idle"
  /\ \E asset \in Assets, amount \in 1..MaxAmount, ok \in BOOLEAN :
       LET quote == [NoRecord EXCEPT !.from = asset, !.fromAmount = amount]
           upd == approveTokens(quote, allowance)
       IN /\ isERC20(asset)
          /\ IF ~ok
               THEN \* the allowance query fails: newSwap throws
                    /\ UNCHANGED <<swaps, pc>>
                    /\ Record(Finished("newSwap", NoRecord, swaps'[s],
                                        <<"allowance">>, 0, 0, FALSE, TRUE, NoUpdate, -1, <<>>))
             ELSE IF upd # NoUpdate
               THEN /\ swaps' = [swaps EXCEPT ![s] = Merge(quote, upd)]
                    /\ UNCHANGED pc
                    /\ Record(Finished("newSwap", NoRecord, swaps'[s],
                                        <<"allowance">>, 0, 0, FALSE, FALSE, upd, -1, <<>>))
             ELSE /\ swaps' = [swaps EXCEPT ![s] = quote]
                  /\ pc' = [pc EXCEPT ![s] = "newSwap:approveTokens"]
                  /\ Record(NoLast)
  /\ UNCHANGED <<lock, txs, allowance, sent>>
  /\ UNCHANGED ext

\* approveTokens resumes: client.chain.sendTransaction(txData) has answered
NewSwapApproveSent(s) ==
  /\ pc[s] = "newSwap:approveTokens"
  /\ pc' = [pc EXCEPT ![s] = "idle"]
  /\ \E ok \in BOOLEAN :
       IF ok
         THEN LET upd == approveTokensSent(Hash(s, "approve"))
              IN /\ SendTransaction(s, "approve")
                 /\ swaps' = [swaps EXCEPT ![s] = Merge(@, upd)]
                 /\ Record(Finished("newSwap", NoRecord, swaps'[s],
                                     <<"allowance", "sendTransaction">>,
                                     1, 0, FALSE, FALSE, upd, -1, <<>>))
         ELSE /\ swaps' = [swaps EXCEPT ![s] = NoRecord]
              /\ Record(Finished("newSwap", NoRecord, swaps'[s],
                                  <<"allowance", "sendTransaction">>,
                                  0, 0, FALSE, TRUE, NoUpdate, -1, <<>>))
              /\ UNCHANGED <<txs, sent>>
  /\ UNCHANGED <<lock, allowance>>
  /\ UNCHANGED ext

\* sendSwap called by newSwap resumes
NewSwapSwapSent(s) ==
  /\ pc[s] = "newSwap:sendSwap"
  /\ pc' = [pc EXCEPT ![s] = "idle"]
  /\ \E ok \in BOOLEAN :
       IF ok
         THEN LET upd == sendSwap(Hash(s, "swap"))
              IN /\ SendTransaction(s, "swap")
                 /\ swaps' = [swaps EXCEPT ![s] = Merge(@, upd)]
                 /\ Record(Finished("newSwap", NoRecord, swaps'[s], <<"sendTransaction">>,
                                     1, 0, FALSE, FALSE, upd, -1, <<>>))
         ELSE /\ swaps' = [swaps EXCEPT ![s] = NoRecord]
              /\ Record(Finished("newSwap", NoRecord, swaps'[s], <<"sendTransaction">>,
                                  0, 0, FALSE, TRUE, NoUpdate, -1, <<>>))
              /\ UNCHANGED <<txs, sent>>
  /\ UNCHANGED <<lock, allowance>>
  /\ UNCHANGED ext

\* ------------------------------------- performNextAction/utils helpers
\* withInterval(func): one attempt of func, whose result is handed back
withInterval(result) == result

\* withLock(store, {network, asset}, func): the (network, asset) lock is
\* taken before func runs and given back when func has returned or thrown
LockFree(s) == lock[LockKey(s)] = NoSwap
AcquireLock(s) == lock' = [lock EXCEPT ![LockKey(s)] = s]
ReleaseLock(s) == lock' = [lock EXCEPT ![LockKey(s)] = NoSwap]

\* ----------------------------------------------- performNextSwapAction
\* case 'WAITING_FOR_APPROVE_CONFIRMATIONS'
PerformWaitingForApprove(s) ==
  /\ swaps[s].status = "WAITING_FOR_APPROVE_CONFIRMATIONS" /\ pc[s] = "idle"
  /\ \E tx \in GetTransactionByHash(swaps[s].approveTxHash) :
       LET r == withInterval(waitForApproveConfirmations(tx))
       IN /\ swaps' = [swaps EXCEPT ![s] = Merge(@, r.update)]
          /\ Record([Finished("perform", swaps[s], swaps'[s],
                               <<"getTransactionByHash">>, 0, 0, FALSE,
                               r.threw, r.update, tx.confirmations, <<>>)
                        EXCEPT !.answer = Answer(tx)])
  /\ UNCHANGED <<pc, lock, txs, allowance, sent>>
  /\ UNCHANGED ext

\* case 'APPROVE_CONFIRMED': withLock has the lock, sendSwap suspends in
\* client.chain.sendTransaction
PerformApproveConfirmed(s) ==
  /\ swaps[s].status = "APPROVE_CONFIRMED" /\ pc[s] = "idle"
  /\ LockFree(s)
  /\ AcquireLock(s)
  /\ pc' = [pc EXCEPT ![s] = "perform:sendSwap"]
  /\ Record(NoLast)
  /\ UNCHANGED <<swaps, txs, allowance, sent>>
  /\ UNCHANGED ext

\* an APPROVE_CONFIRMED step that finds a swap transaction already sent
\* and adopts it instead of sending another
PerformSwapSent_Dedup(s) ==
  /\ pc[s] = "perform:sendSwap"
  /\ pc' = [pc EXCEPT ![s] = "idle"]
  /\ ReleaseLock(s)
  /\ LET upd == sendSwap(Hash(s, "swap"))
     IN /\ IF sent[s]["swap"] = 0
             THEN SendTransaction(s, "swap")
             ELSE UNCHANGED <<txs, sent>>
        /\ swaps' = [swaps EXCEPT ![s] = Merge(@, upd)]
        /\ Record(Finished("perform", swaps[s], swaps'[s],
                           <<"sendTransaction">>, 1, 0, TRUE,
                           FALSE, upd, -1, <<>>))
  /\ UNCHANGED allowance
  /\ UNCHANGED ext

\* withLock used without a finally: a throw leaves the lock taken
PerformSwapSent_HoldOnThrow(s) ==
  /\ pc[s] = "perform:sendSwap"
  /\ pc' = [pc EXCEPT ![s] = "idle"]
  /\ \E ok \in BOOLEAN :
       IF ok
         THEN LET upd == sendSwap(Hash(s, "swap"))
              IN /\ SendTransaction(s, "swap")
                 /\ ReleaseLock(s)
                 /\ swaps' = [swaps EXCEPT ![s] = Merge(@, upd)]
                 /\ Record(Finished("perform", swaps[s], swaps'[s],
                                     <<"sendTransaction">>, 1, 0, TRUE,
                                     FALSE, upd, -1, <<>>))
         ELSE /\ UNCHANGED <<swaps, txs, sent, lock>>
              /\ Record(Finished("perform", swaps[s], swaps'[s],
                                  <<"sendTransaction">>, 0, 0, TRUE,
                                  TRUE, NoUpdate, -1, <<>>))
  /\ UNCHANGED allowance
  /\ UNCHANGED ext

\* case 'APPROVE_CONFIRMED', resumed: sendTransaction has answered
PerformSwapSent(s) ==
  /\ pc[s] = "perform:sendSwap"
  /\ pc' = [pc EXCEPT ![s] = "idle"]
  /\ ReleaseLock(s)
  /\ \E ok \in BOOLEAN :
       IF ok
         THEN LET upd == sendSwap(Hash(s, "swap"))
              IN /\ SendTransaction(s, "swap")
                 /\ swaps' = [swaps EXCEPT ![s] = Merge(@, upd)]
                 /\ Record(Finished("perform", swaps[s], swaps'[s],
                                     <<"sendTransaction">>, 1, 0, TRUE,
                                     FALSE, upd, -1, <<>>))
         ELSE /\ UNCHANGED <<swaps, txs, sent>>
              /\ Record(Finished("perform", swaps[s], swaps'[s],
                                  <<"sendTransaction">>, 0, 0, TRUE,
                                  TRUE, NoUpdate, -1, <<>>))
  /\ UNCHANGED allowance
  /\ UNCHANGED ext

\* case 'WAITING_FOR_SWAP_CONFIRMATIONS'
NoReceipt == [kind |-> "none", name |-> "", status |-> <<>>]

PerformWaitingForSwap(s) ==
  /\ swaps[s].status = "WAITING_FOR_SWAP_CONFIRMATIONS" /\ pc[s] = "idle"
  /\ \E tx \in GetTransactionByHash(swaps[s].swapTxHash) :
       \E rc \in IF tx.kind = "tx" /\ tx.confirmations > 0
                   THEN GetTransactionReceipt(swaps[s].swapTxHash)
                   ELSE {NoReceipt} :
         LET r == withInterval(waitForSwapConfirmations(tx, rc))
         IN /\ swaps' = [swaps EXCEPT ![s] = Merge(@, r.update)]
            /\ Record([Finished("perform", swaps[s], swaps'[s],
                                 IF r.receipt
                                   THEN <<"getTransactionByHash",
                                          "getTransactionReceipt">>
                                   ELSE <<"getTransactionByHash">>,
                                 0, r.refresh, FALSE, r.threw, r.update,
                                 tx.confirmations, rc.status)
                          EXCEPT !.answer = Answer(tx),
                                 !.ranswer = Answer(rc)])
  /\ UNCHANGED <<pc, lock, txs, allowance, sent>>
  /\ UNCHANGED ext

\* a switch whose FAILED case sends the swap back to be submitted again
PerformTerminal_Retry(s) ==
  /\ swaps[s].status \in Terminal /\ pc[s] = "idle"
  /\ swaps' = [swaps EXCEPT ![s].status =
                 IF @ = "FAILED" THEN "APPROVE_CONFIRMED" ELSE @]
  /\ Record(Finished("perform", swaps[s], swaps'[s], <<>>, 0, 0, FALSE,
                     FALSE, NoUpdate, -1, <<>>))
  /\ UNCHANGED <<pc, lock, txs, allowance, sent>>
  /\ UNCHANGED ext

\* no case matches SUCCESS or FAILED: updates stays undefined
PerformTerminal(s) ==
  /\ swaps[s].status \in Terminal /\ pc[s] = "idle"
  /\ UNCHANGED <<swaps, pc, lock, txs, allowance, sent>>
  /\ Record(Finished("perform", swaps[s], swaps'[s], <<>>, 0, 0, FALSE,
                      FALSE, NoUpdate, -1, <<>>))
  /\ UNCHANGED ext

\* ------------------------------------------------------------ the chain
\* a pending transaction is mined: an approval that succeeds sets the
\* allowance to its amount, a contribution that succeeds spends it
Mine(h) ==
  /\ txs[h].conf = 0
  /\ \E code \in 0..1 :
       LET s == h[1]
           amount == swaps[s].fromAmount
           token == isERC20(swaps[s].from)
       IN /\ (h[2] = "swap" /\ token /\ allowance < amount) => code = 0
          /\ txs' = [txs EXCEPT ![h] = [conf |-> 1, code |-> code]]
          /\ allowance' =
               IF code = 0 THEN allowance
               ELSE IF h[2] = "approve" THEN amount
               ELSE IF token THEN allowance - amount
               ELSE allowance
  /\ Record(NoLast)
  /\ UNCHANGED <<swaps, pc, lock, sent>>
  /\ UNCHANGED ext

Confirm(h) ==
  /\ txs[h].conf >= 1 /\ txs[h].conf < MaxConfirmations
  /\ txs' = [txs EXCEPT ![h].conf = @ + 1]
  /\ Record(NoLast)
  /\ UNCHANGED <<swaps, pc, lock, allowance, sent>>
  /\ UNCHANGED ext

Next ==
  \/ \E s \in Swaps :
       \/ NewSwapNative(s)
       \/ NewSwapToken(s)
       \/ NewSwapApproveSent(s)
       \/ NewSwapSwapSent(s)
       \/ PerformWaitingForApprove(s)
       \/ PerformApproveConfirmed(s)
       \/ PerformSwapSent(s)
       \/ PerformWaitingForSwap(s)
       \/ PerformTerminal(s)
  \/ \E h \in Hashes : Mine(h) \/ Confirm(h)

Spec == Init /\ [][Next]_vars

\* the scheduler keeps invoking performNextSwapAction, every pending
\* transaction is mined, and no chain call fails forever
ApprovePollAnswered(s) ==
  PerformWaitingForApprove(s) /\ swaps'[s].status = "APPROVE_CONFIRMED"

SwapSubmitted(s) ==
  PerformSwapSent(s) /\ swaps'[s].status = "WAITING_FOR_SWAP_CONFIRMATIONS"

SwapPollAnswered(s) ==
  PerformWaitingForSwap(s) /\ swaps'[s].status \in Terminal

Fairness ==
  /\ \A s \in Swaps :
       /\ WF_vars(ApprovePollAnswered(s))
       /\ WF_vars(PerformApproveConfirmed(s))
       /\ SF_vars(SwapSubmitted(s))
       /\ WF_vars(SwapPollAnswered(s))
  /\ \A h \in Hashes : WF_vars(Mine(h))

LiveInit ==
  \E a \in 0..MaxAmount :
    /\ swaps = [s \in Swaps |-> NoRecord]
    /\ pc = [s \in Swaps |-> "idle"]
    /\ lock = [k \in Keys |-> NoSwap]
    /\ txs = [h \in Hashes |-> NoTx]
    /\ allowance = a
    /\ sent = [s \in Swaps |-> [leg \in Legs |-> 0]]
    /\ last = LogOff
    /\ ExtInit

LiveSpec == LiveInit /\ [][Next]_vars /\ Fairness

\* ------------------------------------------------------- lost updates
\* case 'APPROVE_CONFIRMED', resumed, and the process stops before the
\* returned update is stored: the transaction is on the chain, the lock
\* is gone with the process, the record is as it was
PerformSwapSentLost(s) ==
  /\ pc[s] = "perform:sendSwap"
  /\ lost[s] < MaxLostUpdates
  /\ pc' = [pc EXCEPT ![s] = "idle"]
  /\ ReleaseLock(s)
  /\ SendTransaction(s, "swap")
  /\ lost' = [lost EXCEPT ![s] = @ + 1]
  /\ Record(NoLast)
  /\ UNCHANGED <<swaps, allowance, query, origin>>

CrashNext ==
  \/ Next
  \/ \E s \in Swaps : PerformSwapSentLost(s)

CrashSpec == LiveInit /\ [][CrashNext]_vars

\* ------------------------------------------- QUOTES, ALLOWANCE, FEES
\* The read-only requests of the provider. Each action below is one whole
\* call; the answers of the chain are the call's inputs.

\* the asset registry (cryptoassets): symbol, chain, decimals
QueryAssets == {"SOV", "ZERO", "RBTC", "BTC", "ETH"}
Chain(a) ==
  IF a \in {"SOV", "ZERO", "RBTC"} THEN "rsk"
  ELSE IF a = "BTC" THEN "bitcoin" ELSE "ethereum"
NativeAsset(chain) ==
  IF chain = "rsk" THEN "RBTC" ELSE IF chain = "bitcoin" THEN "BTC" ELSE "ETH"
Decimals(a) == IF a = "BTC" THEN 8 ELSE 18

\* currencyToUnit(asset, amount) = amount x 10^decimals, kept as a pair
currencyToUnit(a, amount) == [coeff |-> amount, exp |-> Decimals(a)]

\* what the sale contract answers for exchangeRate() and PPM()
ExchangeRates == {500000, 2000000}
PPM == 1000000
getDepositRate(exchangeRate) == [num |-> exchangeRate, den |-> PPM]

Null == [null |-> TRUE]
Threw == [threw |-> TRUE]

\* getQuote without the sale-status check
getQuote_NoSaleCheck(from, to, amount, isClosed, exchangeRate) ==
  IF Chain(from) # "rsk" \/ Chain(to) # "rsk" \/ amount <= 0 THEN Null
  ELSE IF from # "SOV" \/ to # "ZERO" THEN Null
  ELSE [from |-> from, to |-> to,
        fromAmount |-> currencyToUnit(from, amount),
        toAmount |-> [amount |-> currencyToUnit(from, amount),
                      rate |-> getDepositRate(exchangeRate)]]

getQuote(from, to, amount, isClosed, exchangeRate) ==
  IF Chain(from) # "rsk" \/ Chain(to) # "rsk" \/ amount <= 0 THEN Null
  ELSE IF from # "SOV" \/ to # "ZERO" THEN Null
  ELSE IF isClosed THEN Null
  ELSE [from |-> from, to |-> to,
        fromAmount |-> currencyToUnit(from, amount),
        toAmount |-> [amount |-> currencyToUnit(from, amount),
                      rate |-> getDepositRate(exchangeRate)]]

\* the contract calls getQuote makes, in order
getQuoteCalls(from, to, amount, isClosed) ==
  IF Chain(from) # "rsk" \/ Chain(to) # "rsk" \/ amount <= 0 THEN <<>>
  ELSE IF from # "SOV" \/ to # "ZERO" THEN <<>>
  ELSE IF isClosed THEN <<"isClosed">>
  ELSE <<"isClosed", "PPM", "exchangeRate">>

\* the calls requiresApproval makes, in order
requiresApprovalCalls(quote) ==
  IF ~isERC20(quote.from) THEN <<>>
  ELSE <<"getUnusedAddresses", "allowance">>

txTypes == [SWAP |-> "SWAP"]
fromTxType == txTypes.SWAP
TxTypes == {"SWAP", "SEND"}

SwapGas == 750000
ApprovalGasEstimates == {30000, 60000}
FeePrices == {5, 10}
FeePriceLists == UNION {[1..n -> FeePrices] : n \in 0..2}
Range(f) == {f[i] : i \in DOMAIN f}

\* the gas budget that counts the approval whether it is required or not
gasLimit_ApprovalAlways(quote, allow, approvalGas) == approvalGas + SwapGas

\* gasLimit of estimateFees after line 197
gasLimit(quote, allow, approvalGas) ==
  (IF requiresApproval(quote, allow) THEN approvalGas ELSE 0) + SwapGas

\* BN(gasLimit).times(1.1).times(BN(feePrice).times(1e9)), in wei; 1.1 x 1e9
\* is 11 x 1e8, so the product is kept as coeff x 10^8
Fee(limit, feePrice) == [coeff |-> limit * 11 * feePrice, exp |-> 8]

\* unitToCurrency(asset, value) = value / 10^decimals
unitToCurrency(a, value) == [value EXCEPT !.exp = @ - Decimals(a)]

estimateFees(asset, txType, quote, feePrices, allow, approvalGas) ==
  IF txType # fromTxType THEN [threw |-> TRUE, fees |-> <<>>]
  ELSE [threw |-> FALSE,
        fees |-> [p \in Range(feePrices) |->
                    unitToCurrency(NativeAsset(Chain(asset)),
                                   Fee(gasLimit(quote, allow, approvalGas), p))]]

estimateFeesCalls(txType, quote, allow) ==
  IF txType # fromTxType THEN <<>>
  ELSE IF requiresApproval(quote, allow)
    THEN requiresApprovalCalls(quote) \o <<"getUnusedAddresses", "estimateGas">>
    ELSE requiresApprovalCalls(quote)

QueryRest == <<swaps, pc, lock, txs, allowance, sent, last, lost, origin>>

GetQuote ==
  \E from \in QueryAssets, to \in QueryAssets, amount \in -1..MaxAmount,
     isClosed \in BOOLEAN, exchangeRate \in ExchangeRates :
    /\ query' = [op |-> "getQuote", from |-> from, to |-> to,
                 amount |-> amount, closed |-> isClosed,
                 result |-> getQuote(from, to, amount, isClosed, exchangeRate),
                 calls |-> getQuoteCalls(from, to, amount, isClosed)]
    /\ UNCHANGED QueryRest

RequiresApproval ==
  \E from \in Assets, fromAmount \in 0..MaxAmount :
    LET quote == [from |-> from, fromAmount |-> fromAmount] IN
    /\ query' = [op |-> "requiresApproval", quote |-> quote,
                 allowance |-> allowance,
                 result |-> requiresApproval(quote, allowance),
                 calls |-> requiresApprovalCalls(quote)]
    /\ UNCHANGED QueryRest

EstimateFees ==
  \E asset \in QueryAssets, txType \in TxTypes, from \in Assets,
     fromAmount \in 0..MaxAmount, feePrices \in FeePriceLists,
     approvalGas \in ApprovalGasEstimates :
    LET quote == [from |-> from, fromAmount |-> fromAmount] IN
    /\ query' = [op |-> "estimateFees", asset |-> asset, txType |-> txType,
                 quote |-> quote, feePrices |-> feePrices,
                 allowance |-> allowance, approvalGas |-> approvalGas,
                 result |-> estimateFees(asset, txType, quote, feePrices,
                                         allowance, approvalGas),
                 calls |-> estimateFeesCalls(txType, quote, allowance)]
    /\ UNCHANGED QueryRest

QueryNext == GetQuote \/ RequiresApproval \/ EstimateFees
QuerySpec == LiveInit /\ [][QueryNext]_vars

\* ------------------------------------------------ requestOriginAccess
OriginRest == <<swaps, pc, lock, txs, allowance, sent, last, lost, query>>

\* resolve / reject settle a promise once; later calls change nothing
Settle(res, how) == IF res = "none" THEN how ELSE res

\* requestOriginAccess({origin, chain}), up to its first suspension
RequestOriginAccess(r) ==
  /\ origin.at[r] = "idle"
  /\ origin' =
       IF ~origin.active
         THEN [origin EXCEPT !.active = TRUE, !.at[r] = "unlock"]
         ELSE [origin EXCEPT !.at[r] = "done", !.result[r] = "undefined"]
  /\ UNCHANGED OriginRest

\* dispatch('requestUnlockWallet') answers: the listener is registered and
\* the popup opened, or the error is passed on
RequestUnlockWallet(r) ==
  /\ origin.at[r] = "unlock"
  /\ \E unlocked \in BOOLEAN :
       origin' =
         IF unlocked
           THEN [origin EXCEPT !.at[r] = "waiting", !.listener[r] = TRUE,
                               !.popup[r] = "open"]
           ELSE [origin EXCEPT !.active = FALSE, !.at[r] = "done",
                               !.result[r] = "threw"]
  /\ UNCHANGED OriginRest

\* the user answers in the popup of r: `origin:<origin>` is emitted and
\* every $once listener registered for that origin runs, once
ReplyOrigin(r, allowed) ==
  /\ origin.popup[r] = "open"
  /\ LET heard == {q \in Requests :
                     origin.listener[q] /\ OriginOf(q) = OriginOf(r)}
     IN origin' =
          [origin EXCEPT
             !.popup[r] = "replied",
             !.active = IF heard # {} THEN FALSE ELSE @,
             !.listener = [q \in Requests |-> @[q] /\ q \notin heard],
             !.connections = IF allowed THEN @ + Cardinality(heard) ELSE @,
             !.at = [q \in Requests |-> IF q \in heard THEN "done" ELSE @[q]],
             !.result = [q \in Requests |->
                           IF q \in heard
                             THEN Settle(@[q], IF allowed THEN "accepted"
                                                          ELSE "User denied")
                             ELSE @[q]]]
  /\ UNCHANGED OriginRest

\* the popup of r closes, by the user or after the answer: the callback
\* given to createPopup runs
PopupClosed(r) ==
  /\ origin.popup[r] \in {"open", "replied"}
  /\ origin' = [origin EXCEPT !.popup[r] = "closed",
                              !.active = FALSE,
                              !.at[r] = "done",
                              !.result[r] = Settle(@, "User denied")]
  /\ UNCHANGED OriginRest

OriginNext ==
  \/ \E r \in Requests : RequestOriginAccess(r)
  \/ \E r \in Requests : RequestUnlockWallet(r)
  \/ \E r \in Requests, allowed \in BOOLEAN : ReplyOrigin(r, allowed)
  \/ \E r \in Requests : PopupClosed(r)
OriginSpec == LiveInit /\ [][OriginNext]_vars

\* ---------------------------------------------------------- properties
Submitting(s) ==
  pc[s] \in {"newSwap:approveTokens", "newSwap:sendSwap", "perform:sendSwap"}
Performed == last.op = "perform"
Polled == Performed /\ last.status \in {"WAITING_FOR_APPROVE_CONFIRMATIONS",
                                        "WAITING_FOR_SWAP_CONFIRMATIONS"}
NotObserved ==
  \/ last.answer \in {"null", "TxNotFoundError"}
  \/ last.answer = "tx" /\ last.conf = 0

\* C1: the status of a swap record only moves forward along
\* WAITING_FOR_APPROVE_CONFIRMATIONS -> APPROVE_CONFIRMED ->
\* WAITING_FOR_SWAP_CONFIRMATIONS -> {SUCCESS, FAILED}; APPROVE_CONFIRMED
\* is never set on a record in WAITING_FOR_SWAP_CONFIRMATIONS
C1_StatusForward ==
  [][\A s \in Swaps :
       /\ Rank(swaps'[s].status) >= Rank(swaps[s].status)
       /\ ~(/\ swaps[s].status = "WAITING_FOR_SWAP_CONFIRMATIONS"
            /\ swaps'[s].status = "APPROVE_CONFIRMED")]_vars

C1_Witness ==
  \E s \in Swaps :
    /\ swaps[s].status = "SUCCESS"
    /\ swaps[s].approveTxHash # NoHash
    /\ swaps[s].swapTxHash # NoHash

\* C2: every transaction submission is made while holding the lock of its
\* (network, asset), so two submissions for one (network, asset) never overlap
C2_SubmissionUnderLock ==
  /\ \A s \in Swaps : Submitting(s) => lock[LockKey(s)] = s
  /\ \A s, t \in Swaps :
       (s # t /\ Submitting(s) /\ Submitting(t)) => LockKey(s) # LockKey(t)

\* C3: per swap at most one approval and at most one swap transaction is
\* ever submitted, and exactly one swap transaction once the record is in
\* WAITING_FOR_SWAP_CONFIRMATIONS, SUCCESS or FAILED
C3_OneTransactionPerLeg ==
  \A s \in Swaps :
    /\ sent[s]["approve"] <= 1
    /\ sent[s]["swap"] <= 1
    /\ swaps[s].status \in {"WAITING_FOR_SWAP_CONFIRMATIONS"} \cup Terminal
         => sent[s]["swap"] = 1

C3_Witness ==
  \E s \in Swaps :
    /\ swaps[s].status = "FAILED"
    /\ sent[s]["approve"] = 1
    /\ sent[s]["swap"] = 1

\* C4 as stated: in a non-terminal status one invocation of
\* performNextSwapAction makes at most one chain-client call and exactly
\* one side-effecting action (transaction submission or balance refresh)
C4_OneCallOneEffect ==
  (Performed /\ last.status \notin Terminal) =>
    /\ Len(last.calls) <= 1
    /\ last.sent + last.refresh = 1

\* C4 as amended: in a non-terminal status one invocation makes one
\* chain-client call, or two when a swap-leg poll finds the transaction
\* with at least one confirmation and then looks up the receipt, and at
\* most one side-effecting action: a submission in APPROVE_CONFIRMED, a
\* balance refresh in a poll that returns SUCCESS or FAILED, none otherwise
C4_CallsAndEffects ==
  (Performed /\ last.status \notin Terminal) =>
    /\ Len(last.calls) \in 1..2
    /\ Len(last.calls) = 2 =>
         /\ last.status = "WAITING_FOR_SWAP_CONFIRMATIONS"
         /\ last.calls = <<"getTransactionByHash", "getTransactionReceipt">>
         /\ last.answer = "tx" /\ last.conf >= 1
    /\ last.sent + last.refresh <= 1
    /\ last.sent = 1 => last.status = "APPROVE_CONFIRMED"
    /\ last.refresh = 1 => last.update.status \in Terminal
    /\ last.threw => last.update = NoUpdate

C4_Witness ==
  /\ Performed
  /\ last.status = "WAITING_FOR_SWAP_CONFIRMATIONS"
  /\ Len(last.calls) = 2
  /\ last.refresh = 1

\* C5: under the scheduler's and the chain's fairness every created swap
\* eventually reaches SUCCESS or FAILED and stays there
C5_EventuallyTerminal ==
  \A s \in Swaps :
    [](swaps[s].status # "NONE" => <>[](swaps[s].status \in Terminal))

C5_Witness ==
  \E s, t \in Swaps :
    /\ s # t
    /\ swaps[s].status \in Terminal /\ swaps[t].status \in Terminal
    /\ sent[s]["approve"] = 1

\* C6: a swap-leg poll that finds the transaction with at least one
\* confirmation and gets its receipt returns SUCCESS when the receipt
\* status is 1 and FAILED otherwise; it returns no other status
C6_ReceiptDecidesOutcome ==
  (Performed /\ last.status = "WAITING_FOR_SWAP_CONFIRMATIONS") =>
    /\ (last.answer = "tx" /\ last.conf >= 1 /\ last.ranswer = "receipt") =>
         last.update.status =
           IF last.receipt \in ReceiptEncodings(1) THEN "SUCCESS" ELSE "FAILED"
    /\ last.update # NoUpdate => last.update.status \in Terminal

C6_Witness ==
  /\ Performed
  /\ last.status = "WAITING_FOR_SWAP_CONFIRMATIONS"
  /\ last.conf > 1
  /\ last.receipt = HexString(0)
  /\ last.update.status = "FAILED"

\* C7: a poll whose transaction is not found, or found with zero
\* confirmations, returns no update, fetches no receipt and raises no
\* error, and the status stays; an approval found with at least one
\* confirmation yields APPROVE_CONFIRMED
C7_NotObservedNoUpdate ==
  Polled =>
    /\ NotObserved =>
         /\ last.update = NoUpdate
         /\ ~last.threw
         /\ last.calls = <<"getTransactionByHash">>
         /\ last.after = last.status
    /\ (/\ last.status = "WAITING_FOR_APPROVE_CONFIRMATIONS"
        /\ last.answer = "tx" /\ last.conf >= 1) =>
         /\ last.update.status = "APPROVE_CONFIRMED"
         /\ last.after = "APPROVE_CONFIRMED"

C7_Witness ==
  /\ Polled
  /\ last.status = "WAITING_FOR_APPROVE_CONFIRMATIONS"
  /\ last.answer = "tx" /\ last.conf = 0
  /\ last.update = NoUpdate

\* C8: a swap-leg poll refreshes the balances and stamps endTime in
\* exactly the invocations that return SUCCESS or FAILED
C8_RefreshAndEndTime ==
  (Performed /\ last.status = "WAITING_FOR_SWAP_CONFIRMATIONS") =>
    /\ last.refresh = (IF last.update.status \in Terminal THEN 1 ELSE 0)
    /\ last.update.endTime <=> last.update.status \in Terminal
    /\ last.update.status \in Terminal => last.after = last.update.status
    /\ last.update = NoUpdate => last.refresh = 0

C8_Witness ==
  /\ Performed
  /\ last.status = "WAITING_FOR_SWAP_CONFIRMATIONS"
  /\ last.conf = 1
  /\ last.update.status = "SUCCESS"
  /\ last.update.endTime /\ last.refresh = 1

\* C9: in a poll a TxNotFoundError is swallowed and no update is
\* returned; any other client error is raised to the caller, no update
\* is returned and the record keeps its status
C9_ErrorsInPolls ==
  Polled =>
    /\ (last.answer = "TxNotFoundError" \/ last.ranswer = "TxNotFoundError") =>
         ~last.threw /\ last.update = NoUpdate
    /\ (last.answer = "Error" \/ last.ranswer = "Error") =>
         /\ last.threw
         /\ last.update = NoUpdate
         /\ last.after = last.status
    /\ last.threw => (last.answer = "Error" \/ last.ranswer = "Error")

C9_Witness ==
  /\ Polled
  /\ last.status = "WAITING_FOR_APPROVE_CONFIRMATIONS"
  /\ last.answer = "Error"
  /\ last.threw

\* C10: in SUCCESS or FAILED performNextSwapAction calls nothing, submits
\* nothing, takes no lock and returns no update; a terminal record never
\* changes and nothing more is submitted for it
C10_TerminalIsFinal ==
  [][/\ \A s \in Swaps :
          swaps[s].status \in Terminal =>
            /\ swaps'[s] = swaps[s]
            /\ sent'[s] = sent[s]
            /\ pc'[s] = "idle"
            /\ \A k \in Keys : lock'[k] # s
     /\ (last'.op = "perform" /\ last'.status \in Terminal) =>
          /\ last'.calls = <<>>
          /\ last'.sent = 0 /\ last'.refresh = 0
          /\ ~last'.locked /\ ~last'.threw
          /\ last'.update = NoUpdate]_vars

C10_Witness ==
  /\ Performed
  /\ last.status = "FAILED"
  /\ last.after = "FAILED"

\* C11: approveTokens submits nothing and returns APPROVE_CONFIRMED when
\* the allowance covers the amount; otherwise it submits exactly one
\* approval transaction and returns WAITING_FOR_APPROVE_CONFIRMATIONS
\* with that transaction's hash as approveTxHash
C11_ApproveTokens ==
  [][\A s \in Swaps :
       LET before == swaps[s]
           after == swaps'[s]
           token == before.status = "NONE" /\ pc[s] = "idle"
                      /\ isERC20(after.from) /\ after.fromAmount > 0
       IN /\ (token /\ after.status = "APPROVE_CONFIRMED") =>
               /\ allowance >= after.fromAmount
               /\ sent' = sent /\ txs' = txs
               /\ last'.sent = 0
               /\ last'.update = [NoUpdate EXCEPT !.status = "APPROVE_CONFIRMED"]
          /\ (token /\ pc'[s] = "newSwap:approveTokens") =>
               /\ allowance < after.fromAmount
               /\ sent' = sent /\ txs' = txs
          /\ (pc[s] = "newSwap:approveTokens" /\ after.status # "NONE") =>
               /\ after.status = "WAITING_FOR_APPROVE_CONFIRMATIONS"
               /\ after.approveTxHash = Hash(s, "approve")
               /\ sent'[s]["approve"] = sent[s]["approve"] + 1
               /\ txs'[Hash(s, "approve")].conf = 0
               /\ last'.sent = 1
               /\ last'.update.status = "WAITING_FOR_APPROVE_CONFIRMATIONS"
               /\ last'.update.approveTxHash = Hash(s, "approve")
          /\ (/\ pc[s] = "newSwap:approveTokens" /\ pc'[s] = "idle"
              /\ after.status = "NONE") =>
               /\ sent' = sent /\ txs' = txs /\ last'.threw]_vars

C11_Witness ==
  /\ last.op = "newSwap"
  /\ last.update.status = "APPROVE_CONFIRMED"
  /\ last.sent = 0
  /\ last.calls = <<"allowance">>

\* C12: the (network, asset) lock taken in APPROVE_CONFIRMED is held only
\* while the submission is under way: once performNextSwapAction has
\* returned or raised, the swap holds no lock
C12_LockReleased ==
  \A k \in Keys :
    lock[k] # NoSwap =>
      /\ pc[lock[k]] = "perform:sendSwap"
      /\ LockKey(lock[k]) = k

C12_Witness ==
  /\ Performed
  /\ last.locked /\ last.threw
  /\ last.status = "APPROVE_CONFIRMED"
  /\ \A k \in Keys : lock[k] = NoSwap

\* C16: resumption goes by the stored status alone: while no update is
\* lost a swap transaction is never submitted twice, but a swap whose
\* update was lost after the submission is still APPROVE_CONFIRMED and the
\* next submission is one more transaction for the same swap
C16_ResubmissionAfterLostUpdate ==
  \A s \in Swaps :
    /\ sent[s]["swap"] =
         lost[s] + (IF swaps[s].status \in
                         {"WAITING_FOR_SWAP_CONFIRMATIONS"} \cup Terminal
                      THEN 1 ELSE 0)
    /\ (lost[s] > 0 /\ sent[s]["swap"] = lost[s]) =>
         swaps[s].status = "APPROVE_CONFIRMED"
    /\ sent[s]["approve"] <= 1

C16_Witness ==
  \E s \in Swaps :
    /\ lost[s] = 1
    /\ sent[s]["swap"] = 2
    /\ swaps[s].status = "WAITING_FOR_SWAP_CONFIRMATIONS"

\* C17: a swap whose creation submitted an approval transaction submits
\* its swap transaction only after a poll has seen the approval with at
\* least one confirmation; newSwap itself submits the swap transaction
\* only for a non-token source
C17_ApprovalBeforeSwap ==
  /\ \A s \in Swaps :
       /\ (sent[s]["approve"] >= 1
             /\ (sent[s]["swap"] >= 1 \/ pc[s] = "perform:sendSwap")) =>
            /\ txs[Hash(s, "approve")].conf >= 1
            /\ swaps[s].endTime
            /\ Rank(swaps[s].status) >= Rank("APPROVE_CONFIRMED")
       /\ (sent[s]["approve"] >= 1
             /\ Rank(swaps[s].status) >= Rank("APPROVE_CONFIRMED")) =>
            txs[Hash(s, "approve")].conf >= 1
       /\ pc[s] = "newSwap:sendSwap" => ~isERC20(swaps[s].from)
       /\ (isERC20(swaps[s].from) /\ sent[s]["swap"] >= 1) =>
            swaps[s].status \in {"WAITING_FOR_SWAP_CONFIRMATIONS"} \cup Terminal
  /\ (Performed /\ last.status = "WAITING_FOR_APPROVE_CONFIRMATIONS"
        /\ last.after = "APPROVE_CONFIRMED") =>
       last.answer = "tx" /\ last.conf >= 1 /\ last.sent = 0

C17_Witness ==
  \E s \in Swaps :
    /\ sent[s]["approve"] = 1
    /\ pc[s] = "perform:sendSwap"
    /\ txs[Hash(s, "approve")].conf >= 1

\* C18: whenever a swap transaction for a token source is submitted, the
\* allowance granted to the sale contract at that moment is at least the
\* swap's fromAmount, also with several swaps advanced concurrently
C18_AllowanceAtSubmission ==
  [][\A s \in Swaps :
       (/\ pc[s] = "idle" /\ pc'[s] = "perform:sendSwap"
        /\ isERC20(swaps[s].from)) =>
         allowance >= swaps[s].fromAmount]_vars

\* C19: a swap that went through the approval leg is APPROVE_CONFIRMED or
\* later only if its approval transaction succeeded on the chain, so no
\* swap transaction follows a reverted approval
C19_ApprovalSucceeded ==
  \A s \in Swaps :
    (sent[s]["approve"] >= 1
       /\ Rank(swaps[s].status) >= Rank("APPROVE_CONFIRMED")) =>
      txs[Hash(s, "approve")].code = 1

\* C13: requiresApproval is false exactly when the allowance is at least the
\* requested amount: for a token source it is false at allowance = fromAmount
\* and above and true below; for a non-token source it is false and no
\* allowance is read
C13_RequiresApproval ==
  query.op = "requiresApproval" =>
    IF isERC20(query.quote.from)
      THEN /\ query.result = (query.allowance < query.quote.fromAmount)
           /\ query.allowance = query.quote.fromAmount => query.result = FALSE
           /\ "allowance" \in Range(query.calls)
      ELSE /\ query.result = FALSE
           /\ "allowance" \notin Range(query.calls)

C13_Witness ==
  /\ query.op = "requiresApproval"
  /\ isERC20(query.quote.from)
  /\ query.quote.fromAmount > 0
  /\ query.allowance = query.quote.fromAmount
  /\ query.result = FALSE

\* C14: getQuote returns null, without raising, when the pair is not
\* SOV -> ZERO, or an asset is not on the rsk chain, or amount <= 0, or the
\* sale is reported closed; it returns a quote only when none of these holds
C14_GetQuoteAbsent ==
  query.op = "getQuote" =>
    /\ query.result # Threw
    /\ query.result = Null <=>
         \/ query.from # "SOV" \/ query.to # "ZERO"
         \/ Chain(query.from) # "rsk" \/ Chain(query.to) # "rsk"
         \/ query.amount <= 0
         \/ query.closed
    /\ query.result # Null =>
         /\ query.result.from = query.from /\ query.result.to = query.to
         /\ query.result.fromAmount.coeff = query.amount

C14_Witness ==
  /\ query.op = "getQuote"
  /\ query.from = "SOV" /\ query.to = "ZERO" /\ query.amount > 0
  /\ query.closed
  /\ query.result = Null
  /\ query.calls = <<"isClosed">>

\* C15: estimateFees returns one fee per candidate fee price, fee = gas
\* budget x 1.1 x feePrice, the budget being 750000 plus the approval gas
\* estimate exactly when approval is required; with no approval required and
\* tiers [5, 10] it returns two fees, 750000 x 1.1 x 5 and twice that
C15_EstimateFees ==
  (query.op = "estimateFees" /\ query.txType = "SWAP") =>
    LET required == /\ isERC20(query.quote.from)
                    /\ query.allowance < query.quote.fromAmount
        budget == 750000 + (IF required THEN query.approvalGas ELSE 0)
        fees == query.result.fees
    IN /\ ~query.result.threw
       /\ DOMAIN fees = Range(query.feePrices)
       /\ \A p \in DOMAIN fees :
            \* gas x 1.1 x (feePrice x 10^9) wei = gas x 11 x feePrice x 10^8
            /\ fees[p].coeff = budget * 11 * p
            /\ fees[p].exp = 8 - Decimals(NativeAsset(Chain(query.asset)))
       /\ ("estimateGas" \in Range(query.calls)) <=> required
       /\ (~required /\ query.feePrices = <<5, 10>>) =>
            /\ Cardinality(DOMAIN fees) = 2
            /\ fees[5].coeff = 41250000
            /\ fees[10].coeff = 2 * fees[5].coeff

C15_Witness ==
  /\ query.op = "estimateFees" /\ query.txType = "SWAP"
  /\ query.feePrices = <<5, 10>>
  /\ query.asset = "SOV"
  /\ ~requiresApproval(query.quote, query.allowance)
  /\ query.result.fees[5] = [coeff |-> 41250000, exp |-> -10]
  /\ query.result.fees[10] = [coeff |-> 82500000, exp |-> -10]

\* C20: at most one origin-access request is pending at a time: a call made
\* while the flag is set opens no popup, commits nothing and returns no
\* result, and the flag stays set for as long as a request is pending (no
\* callback of an earlier request resets it)
OriginPending == {r \in Requests : origin.at[r] \in {"unlock", "waiting"}}
C20_OnePendingRequest ==
  /\ Cardinality(OriginPending) <= 1
  /\ OriginPending # {} => origin.active
  /\ \A r \in Requests :
       origin.result[r] = "undefined" =>
         origin.popup[r] = "none" /\ ~origin.listener[r]
====
